---- MODULE Spec2Model ----
(***************************************************************************)
(* Submission intake and notification pipeline of the form backend         *)
(* (formRouter in src/unnamed/part_002, schema in src/prisma/schema.prisma).*)
(* The durable store is the tables forms / emailSettings / submissions /   *)
(* notificationLogs; every `await` of a handler is one step of a request.  *)
(***************************************************************************)
EXTENDS Integers, FiniteSets, Sequences, TLC

(* ----------------------------- bounds --------------------------------- *)
\* number of Form rows ever created (form ids are never reused)
MaxFormRows == 2
\* number of Submission rows ever created (submission ids are never reused)
MaxSubmissions == 2
\* last instant of the clock
MaxTime == 1
\* length of a calendar month in clock instants
MonthLen == 1
\* length of a calendar day in clock instants
DayLen == 1

(* ----------------------------- domains -------------------------------- *)
Users == {"u1", "u2"}
Procs == {"r1", "r2"}
Plan == {"FREE", "STANDARD", "PRO"}
FormIds == 1..MaxFormRows
NoForm == "none"
\* an absent EmailSettings row (form.emailSettings is null)
NoRow == [exists |-> FALSE, enabled |-> FALSE, developerNotificationsEnabled |-> FALSE]
\* the emailSettings local of a request that has read no form
NoSettings == [exists |-> FALSE, enabled |-> FALSE]
\* no response produced yet
NoResp == [code |-> 0, id |-> 0, current |-> 0, limit |-> 0]

\* JSON values of a payload: a tag and a printed value
Str(s) == [t |-> "string", v |-> s]
Num(s) == [t |-> "number", v |-> s]
Obj(s) == [t |-> "object", v |-> s]
Null == [t |-> "null", v |-> ""]

\* payloads a submitter may post (z.record(z.any())): functions key -> value
Payloads ==
  { [k \in {"email", "name"} |-> IF k = "email" THEN Str("a@b.com") ELSE Str("A")],
    [k \in {"name"} |-> Str("A")],
    [k \in {"email"} |-> Str("")],
    [k \in {"email"} |-> Num("42")] }

NoData == [k \in {} |-> Null]

\* data.email, `undefined` when the key is absent
EmailOf(data) == IF "email" \in DOMAIN data THEN data["email"] ELSE Null

\* JavaScript truthiness of a payload value
Truthy(val) ==
  CASE val.t = "null" -> FALSE
    [] val.t = "string" -> val.v # ""
    [] val.t = "number" -> val.v # "0"
    [] OTHER -> TRUE

\* an absent GlobalSettings row of a user
NoGlobal == [exists |-> FALSE, developerNotificationsEnabled |-> FALSE]

\* an absent optional date argument
NoDate == -1

\* the arguments of a query when none was made; `query` is the searchSubmissions
\* input split at its leading at-sign
NoArgs == [formId |-> 0, page |-> 1, limit |-> 1, status |-> "", type |-> "",
           search |-> "", startDate |-> NoDate, endDate |-> NoDate,
           query |-> [isIdSearch |-> FALSE, searchValue |-> ""]]

\* no query response is held by a caller
NoView == [held |-> FALSE, op |-> "none", user |-> "u1", args |-> NoArgs, calls |-> 0,
           at |-> 0, code |-> 0, submissions |-> << >>, total |-> 0, pages |-> 0]

VARIABLES plan, forms, emailSettings, submissions, notificationLogs,
          nextFormId, nextSubId, nextLogId, mail, req, now,
          globalSettings, view, rowOrder

vars == <<plan, forms, emailSettings, submissions, notificationLogs,
          nextFormId, nextSubId, nextLogId, mail, req, now,
          globalSettings, view, rowOrder>>

store == <<forms, emailSettings, submissions, notificationLogs,
           nextFormId, nextSubId, nextLogId>>

(* ----------------------------- helpers -------------------------------- *)
\* @/config/usage getQuotaByPlan: finite caps for FREE and STANDARD, none for PRO
getQuotaByPlan(p) ==
  CASE p = "FREE" -> [maxForms |-> 1, maxSubmissionsPerMonth |-> 1]
    [] p = "STANDARD" -> [maxForms |-> 2, maxSubmissionsPerMonth |-> 2]
    [] OTHER -> [maxForms |-> 1000, maxSubmissionsPerMonth |-> 1000]

\* date-fns startOfMonth over the integer clock
startOfMonth(t) == (t \div MonthLen) * MonthLen

\* @/lib/analytics-utils enhanceDataWithAnalytics: adds _meta, keeps the payload's keys
enhanceDataWithAnalytics(data) ==
  [k \in (DOMAIN data) \cup {"_meta"} |->
     IF k \in DOMAIN data THEN data[k] ELSE Obj("meta")]

EmailSettingsRow(en, dev) ==
  [exists |-> TRUE, enabled |-> en, developerNotificationsEnabled |-> dev]

IdleReq ==
  [op |-> "none", pc |-> "idle", user |-> "u1", formId |-> 1, data |-> NoData,
   plan |-> "FREE", es |-> NoSettings, currentDate |-> 0, count |-> 0, sid |-> 0,
   err |-> "", resp |-> NoResp]

Ok(id) == [code |-> 200, id |-> id, current |-> 0, limit |-> 0]
HttpError(code) == [code |-> code, id |-> 0, current |-> 0, limit |-> 0]
QuotaError(cur, lim) == [code |-> 403, id |-> 0, current |-> cur, limit |-> lim]

Done(r, resp) == [r EXCEPT !.pc = "done", !.resp = resp]

Init ==
  /\ plan \in {f \in [Users -> Plan] : f["u2"] = "FREE"}
  /\ forms = [f \in FormIds |-> IF f = 1 THEN "u1" ELSE NoForm]
  /\ emailSettings = [f \in FormIds |-> NoRow]
  /\ submissions = {}
  /\ notificationLogs = {}
  /\ nextFormId = 2
  /\ nextSubId = 1
  /\ nextLogId = 1
  /\ mail = {}
  /\ req = [p \in Procs |-> IdleReq]
  /\ now = 0
  /\ globalSettings = [u \in Users |-> NoGlobal]
  /\ view = NoView
  /\ rowOrder = "asc"

(* ------------------------------ submit -------------------------------- *)
\* (mutant) counts only the submissions created strictly after `since`
MonthlySubmissionsCount_After(owner, since) ==
  Cardinality({s \in submissions : forms[s.formId] = owner /\ s.createdAt > since})

\* submissions of all forms of `owner` created at or after `since`
MonthlySubmissionsCount(owner, since) ==
  Cardinality({s \in submissions : forms[s.formId] = owner /\ s.createdAt >= since})

\* (mutant) the limit is reached only when it is exceeded
MonthlyLimitReached_Strict(count, pl) ==
  count > getQuotaByPlan(pl).maxSubmissionsPerMonth

\* the quota comparison of submit
MonthlyLimitReached(count, pl) == count >= getQuotaByPlan(pl).maxSubmissionsPerMonth

\* (mutant) the plan is not looked at
ShouldSendConfirmation_AnyPlan(pl, es, data) ==
  /\ es.exists /\ es.enabled
  /\ Truthy(EmailOf(data))
  /\ EmailOf(data).t = "string"

\* the condition under which submit attempts the confirmation email
ShouldSendConfirmation(pl, es, data) ==
  /\ pl \in {"STANDARD", "PRO"}
  /\ es.exists /\ es.enabled
  /\ Truthy(EmailOf(data))
  /\ EmailOf(data).t = "string"

\* submit requests that passed the quota check and will take a submission id
PendingCreates == {p \in Procs : req[p].op = "submit" /\ req[p].pc = "create"}

\* the part of form.emailSettings that submit reads: whether the row exists and `enabled`
SettingsRead(row) == [exists |-> row.exists, enabled |-> row.exists /\ row.enabled]

\* a request is given the first free slot
FreeSlot(p) ==
  /\ req[p].pc = "idle"
  /\ \A q \in Procs : req[q].pc = "idle" => ~(q = "r1" /\ p = "r2")

\* db.form.findUnique with user and emailSettings; then startOfMonth(new Date())
SubmitFindForm(p, f, d) ==
  /\ FreeSlot(p)
  /\ req' = [req EXCEPT ![p] =
       IF forms[f] = NoForm
       THEN Done([IdleReq EXCEPT !.op = "submit", !.formId = f, !.data = d], HttpError(404))
       ELSE [IdleReq EXCEPT !.op = "submit", !.pc = "count", !.formId = f, !.data = d,
                            !.user = forms[f], !.plan = plan[forms[f]],
                            !.es = SettingsRead(emailSettings[f]), !.currentDate = startOfMonth(now)]]
  /\ UNCHANGED <<plan, globalSettings, view, rowOrder, store, mail, now>>

\* db.submission.count, then the quota check
SubmitCount(p) ==
  /\ req[p].op = "submit" /\ req[p].pc = "count"
  /\ LET r == req[p]
         c == MonthlySubmissionsCount(r.user, r.currentDate)
     IN /\ MonthlyLimitReached(c, r.plan)
           \/ nextSubId + Cardinality(PendingCreates) <= MaxSubmissions
        /\ req' = [req EXCEPT ![p] =
          IF MonthlyLimitReached(c, r.plan)
          THEN Done([r EXCEPT !.currentDate = 0],
                    QuotaError(c, getQuotaByPlan(r.plan).maxSubmissionsPerMonth))
          ELSE [r EXCEPT !.count = c, !.pc = "create"]]
  /\ UNCHANGED <<plan, globalSettings, view, rowOrder, store, mail, now>>

\* the value of the Submission.email column (String?) for a payload
EmailColumn(data) == EmailOf(data)

\* (mutant) the store has no unique index on (formId, email)
CreateOutcome_NoUnique(f, data) ==
  CASE EmailOf(data).t \notin {"string", "null"} -> "validation"
    [] forms[f] = NoForm -> "foreignKey"
    [] OTHER -> "ok"

\* what db.submission.create does with the row: "ok" or the error it throws
CreateOutcome(f, data) ==
  CASE EmailOf(data).t \notin {"string", "null"} -> "validation"
    [] forms[f] = NoForm -> "foreignKey"
    [] /\ EmailOf(data).t = "string"
       /\ \E s \in submissions : s.formId = f /\ s.email = EmailColumn(data) -> "unique"
    [] OTHER -> "ok"

\* the step a request takes after the Submission row is written
AfterCreate(r) ==
  IF ShouldSendConfirmation(r.plan, r.es, r.data) THEN "send" ELSE "logSkipped"

\* db.submission.create, then the decision whether to send the confirmation
SubmitCreate(p) ==
  /\ req[p].op = "submit" /\ req[p].pc = "create"
  /\ LET r == req[p] IN
     IF CreateOutcome(r.formId, r.data) = "ok"
     THEN /\ submissions' = submissions \cup
               {[id |-> nextSubId, formId |-> r.formId, email |-> EmailColumn(r.data),
                 data |-> enhanceDataWithAnalytics(r.data), createdAt |-> now]}
          /\ nextSubId' = nextSubId + 1
          /\ req' = [req EXCEPT ![p] =
               [r EXCEPT !.sid = nextSubId, !.pc = AfterCreate(r), !.currentDate = 0]]
     ELSE /\ req' = [req EXCEPT ![p] =
               Done([r EXCEPT !.count = 0, !.currentDate = 0], HttpError(500))]
          /\ UNCHANGED <<submissions, nextSubId>>
  /\ UNCHANGED <<plan, globalSettings, view, rowOrder, forms, emailSettings, notificationLogs, nextFormId, nextLogId,
                 mail, now>>

\* outcomes of render(...) followed by resend.emails.send(...)
SendOutcomes == {"delivered", "renderThrows", "sendThrows"}

\* (mutant) a failed send falls through to the skipped branch
AfterSend_FailureSkips(outcome) ==
  IF outcome = "delivered" THEN "logSent" ELSE "logSkipped"

\* the step a request takes after the try block's render and send
AfterSend(outcome) == IF outcome = "delivered" THEN "logSent" ELSE "logFailed"

\* render the email and hand it to the mail transport
SubmitSend(p, outcome) ==
  /\ req[p].op = "submit" /\ req[p].pc = "send"
  /\ LET r == req[p] IN
     /\ mail' = mail \cup {[submissionId |-> r.sid, to |-> EmailOf(r.data).v,
                            outcome |-> outcome]}
     /\ req' = [req EXCEPT ![p] =
          [r EXCEPT !.pc = AfterSend(outcome),
                    !.err = IF outcome = "delivered" THEN "" ELSE outcome]]
  /\ UNCHANGED <<plan, globalSettings, view, rowOrder, store, now>>

\* (mutant) the else branch records a failure
LogStatus_NoSkipped(pc) == IF pc = "logSent" THEN "SENT" ELSE "FAILED"

\* the status each branch of submit logs
LogStatus(pc) ==
  CASE pc = "logSent" -> "SENT"
    [] pc = "logFailed" -> "FAILED"
    [] OTHER -> "SKIPPED"

\* the NotificationLog row each branch of submit writes
LogRow(r) ==
  [id |-> nextLogId, type |-> "SUBMISSION_CONFIRMATION",
   status |-> LogStatus(r.pc),
   error |-> CASE r.pc = "logSent" -> ""
               [] r.pc = "logFailed" -> r.err
               [] OTHER -> "Email not sent - plan or settings not configured",
   submissionId |-> r.sid, formId |-> r.formId, createdAt |-> now]

\* (mutant) the log table has no foreign keys
LogInsertable_NoForeignKeys(r) == r.sid # 0

\* the foreign keys of a NotificationLog row are satisfied
LogInsertable(r) ==
  /\ forms[r.formId] # NoForm
  /\ \E s \in submissions : s.id = r.sid

\* (mutant) the error caught from the send is thrown again after it is logged
AfterLog_Rethrows(r) ==
  IF r.pc = "logFailed" THEN Done([r EXCEPT !.err = ""], HttpError(500))
  ELSE Done([r EXCEPT !.err = ""], Ok(r.sid))

\* (mutant) the response is produced while the request keeps writing
AfterLog_RespondsEarly(r) == [r EXCEPT !.resp = Ok(r.sid)]

\* the request after its db.notificationLog.create returned
AfterLog(r) == Done([r EXCEPT !.err = ""], Ok(r.sid))

\* db.notificationLog.create of the branch taken, then the response
SubmitLog(p) ==
  /\ req[p].op = "submit" /\ req[p].pc \in {"logSent", "logFailed", "logSkipped"}
  /\ LET r == req[p] IN
     IF LogInsertable(r)
     THEN /\ notificationLogs' = notificationLogs \cup {LogRow(r)}
          /\ nextLogId' = nextLogId + 1
          /\ req' = [req EXCEPT ![p] = AfterLog(r)]
     ELSE /\ req' = [req EXCEPT ![p] =
               IF r.pc = "logSent"
               THEN [r EXCEPT !.pc = "logFailed", !.err = "foreignKey"]
               ELSE Done([r EXCEPT !.err = ""], HttpError(500))]
          /\ UNCHANGED <<notificationLogs, nextLogId>>
  /\ UNCHANGED <<plan, globalSettings, view, rowOrder, forms, emailSettings, submissions, nextFormId, nextSubId,
                 mail, now>>

\* db.notificationLog.create is refused by the store although its keys are
\* satisfied: thrown inside the try block it is caught like a failed send, thrown
\* in the catch or the else branch it ends the request
SubmitLogRefused(p) ==
  /\ req[p].op = "submit" /\ req[p].pc \in {"logSent", "logFailed", "logSkipped"}
  /\ LET r == req[p] IN
     req' = [req EXCEPT ![p] =
       IF r.pc = "logSent"
       THEN [r EXCEPT !.pc = "logFailed", !.err = "storeFails"]
       ELSE Done([r EXCEPT !.err = ""], HttpError(500))]
  /\ UNCHANGED <<plan, globalSettings, view, rowOrder, store, mail, now>>

(* ------------------------- create / createFromTemplate ----------------- *)
\* db.form.count where userId
FormCount(u) == Cardinality({f \in FormIds : forms[f] = u})

\* (mutant) the limit is reached only when it is exceeded
FormLimitReached_Strict(count, pl) == count > getQuotaByPlan(pl).maxForms

\* the quota comparison of create and createFromTemplate
FormLimitReached(count, pl) == count >= getQuotaByPlan(pl).maxForms

\* db.user.findUnique and db.form.count, then the form-limit check
CreateCount(p, u, kind) ==
  /\ FreeSlot(p)
  /\ LET c == FormCount(u)
         r == [IdleReq EXCEPT !.op = kind, !.user = u, !.plan = plan[u]]
     IN /\ FormLimitReached(c, plan[u]) \/ nextFormId <= MaxFormRows
        /\ req' = [req EXCEPT ![p] =
             IF FormLimitReached(c, plan[u])
             THEN Done(r, QuotaError(c, getQuotaByPlan(plan[u]).maxForms))
             ELSE [r EXCEPT !.pc = "insert"]]
  /\ UNCHANGED <<plan, globalSettings, view, rowOrder, store, mail, now>>

\* db.form.create with the nested emailSettings create (enabled: false)
CreateInsert(p) ==
  /\ req[p].op \in {"create", "createFromTemplate"} /\ req[p].pc = "insert"
  /\ nextFormId <= MaxFormRows
  /\ forms' = [forms EXCEPT ![nextFormId] = req[p].user]
  /\ emailSettings' = [emailSettings EXCEPT ![nextFormId] = EmailSettingsRow(FALSE, FALSE)]
  /\ nextFormId' = nextFormId + 1
  /\ req' = [req EXCEPT ![p] = Done([req[p] EXCEPT !.formId = nextFormId], Ok(nextFormId))]
  /\ UNCHANGED <<plan, globalSettings, view, rowOrder, submissions, notificationLogs, nextSubId, nextLogId, mail, now>>

(* --------------------------- email settings ---------------------------- *)
\* db.form.update where {id, userId} with the nested emailSettings update
ToggleEmailSettings(u, f, enabled) ==
  /\ forms[f] = u
  /\ emailSettings[f].exists
  /\ emailSettings' = [emailSettings EXCEPT ![f].enabled = enabled]
  /\ UNCHANGED <<plan, globalSettings, view, rowOrder, forms, submissions, notificationLogs, nextFormId, nextSubId,
                 nextLogId, mail, req, now>>

\* values of the optional developerNotificationsEnabled input
OptBool == {"undefined", "true", "false"}

\* db.emailSettings.upsert where formId (form-specific branch)
UpdateEmailSettings(u, f, dev) ==
  /\ forms[f] # NoForm
  /\ emailSettings' = [emailSettings EXCEPT ![f] =
       IF emailSettings[f].exists
       THEN [@ EXCEPT !.developerNotificationsEnabled =
               IF dev = "undefined" THEN @ ELSE dev = "true"]
       ELSE EmailSettingsRow(FALSE, dev = "true")]
  /\ UNCHANGED <<plan, globalSettings, view, rowOrder, forms, submissions, notificationLogs, nextFormId, nextSubId,
                 nextLogId, mail, req, now>>

\* a GlobalSettings row after an upsert with the optional input `dev`
UpsertGlobal(row, dev) ==
  IF row.exists
  THEN [row EXCEPT !.developerNotificationsEnabled = IF dev = "undefined" THEN @ ELSE dev = "true"]
  ELSE [exists |-> TRUE, developerNotificationsEnabled |-> dev = "true"]

\* updateEmailSettings with formId = 'global': db.globalSettings.upsert where userId
UpdateEmailSettingsGlobal(u, dev) ==
  /\ globalSettings' = [globalSettings EXCEPT ![u] = UpsertGlobal(@, dev)]
  /\ UNCHANGED <<plan, view, rowOrder, store, mail, req, now>>

\* updateGlobalSettings: db.user.findUnique, the PRO check, db.globalSettings.upsert
UpdateGlobalSettings(u, dev) ==
  /\ globalSettings' = [globalSettings EXCEPT ![u] =
       IF plan[u] # "PRO" THEN @ ELSE UpsertGlobal(@, dev)]
  /\ UNCHANGED <<plan, view, rowOrder, store, mail, req, now>>

(* -------------------------- getSubmissionLogs --------------------------- *)
\* values of the optional status and type filters ("" when not given)
StatusFilters == {"", "SENT", "FAILED", "SKIPPED"}
TypeFilters == {"", "SUBMISSION_CONFIRMATION", "DEVELOPER_NOTIFICATION", "DIGEST"}

\* (mutant) the where clause does not name the caller
SubmissionsWhere_AnyOwner(u, formId) ==
  {s \in submissions : formId = 0 \/ s.formId = formId}

\* the submissions the where clause selects: forms of the caller, optionally one form
SubmissionsWhere(u, formId) ==
  {s \in submissions : forms[s.formId] = u /\ (formId = 0 \/ s.formId = formId)}

\* the persisted logs of a submission that pass notificationLogsWhere
PersistedLogs(s, status, type) ==
  {[id |-> l.id, temp |-> "", type |-> l.type, status |-> l.status, error |-> l.error,
    createdAt |-> l.createdAt] :
     l \in {x \in notificationLogs :
              /\ x.submissionId = s.id
              /\ status = "" \/ x.status = status
              /\ type = "" \/ x.type = type}}

\* (mutant) the default entries are stamped with the time of the call
DefaultLogs_Now(s, logs) ==
  (IF (\A l \in logs : l.type # "SUBMISSION_CONFIRMATION") /\ Truthy(s.email)
   THEN {[id |-> s.id, temp |-> "user-email", type |-> "SUBMISSION_CONFIRMATION",
          status |-> "SKIPPED",
          error |-> "Email not sent - plan or settings not configured",
          createdAt |-> now]}
   ELSE {})
  \cup
  (IF \A l \in logs : l.type # "DEVELOPER_NOTIFICATION"
   THEN {[id |-> s.id, temp |-> "dev-email", type |-> "DEVELOPER_NOTIFICATION",
          status |-> IF emailSettings[s.formId].developerNotificationsEnabled
                     THEN "SKIPPED" ELSE "FAILED",
          error |-> IF emailSettings[s.formId].developerNotificationsEnabled
                    THEN "Developer notification not sent"
                    ELSE "Developer notifications are disabled",
          createdAt |-> now]}
   ELSE {})

\* the default entries pushed when no log of a type was selected
DefaultLogs(s, logs) ==
  (IF (\A l \in logs : l.type # "SUBMISSION_CONFIRMATION") /\ Truthy(s.email)
   THEN {[id |-> s.id, temp |-> "user-email", type |-> "SUBMISSION_CONFIRMATION",
          status |-> "SKIPPED",
          error |-> "Email not sent - plan or settings not configured",
          createdAt |-> s.createdAt]}
   ELSE {})
  \cup
  (IF \A l \in logs : l.type # "DEVELOPER_NOTIFICATION"
   THEN {[id |-> s.id, temp |-> "dev-email", type |-> "DEVELOPER_NOTIFICATION",
          status |-> IF emailSettings[s.formId].developerNotificationsEnabled
                     THEN "SKIPPED" ELSE "FAILED",
          error |-> IF emailSettings[s.formId].developerNotificationsEnabled
                    THEN "Developer notification not sent"
                    ELSE "Developer notifications are disabled",
          createdAt |-> s.createdAt]}
   ELSE {})

\* the notificationLogs entries returned for one submission
LogsOfSubmission(s, status, type) ==
  PersistedLogs(s, status, type) \cup DefaultLogs(s, PersistedLogs(s, status, type))

\* one more than the largest id of a Submission or NotificationLog row
IdSpan == MaxSubmissions + 1

\* the place of a row among rows with equal createdAt, as the store returns them
TieRank(id) == IF rowOrder = "asc" THEN id ELSE IdSpan - id

\* the elements of S as a sequence in increasing order of key (keys are distinct)
RECURSIVE SortByKey(_, _)
SortByKey(S, key) ==
  IF S = {} THEN << >>
  ELSE LET x == CHOOSE y \in S : \A z \in S : key[y] <= key[z]
       IN <<x>> \o SortByKey(S \ {x}, key)

\* orderBy createdAt desc
NewestFirst(S) ==
  SortByKey(S, [x \in S |-> (MaxTime - x.createdAt) * IdSpan + TieRank(x.id)])

\* (mutant) the comparison of the types is turned around
TypeRank_Descending(type) ==
  CASE type = "DEVELOPER_NOTIFICATION" -> 2
    [] type = "DIGEST" -> 1
    [] OTHER -> 0

\* a.type.localeCompare(b.type) over the notification types
TypeRank(type) ==
  CASE type = "DEVELOPER_NOTIFICATION" -> 0
    [] type = "DIGEST" -> 1
    [] OTHER -> 2

\* formattedLogs after the default entries are pushed and the list is sorted by type,
\* then newest first
FormattedLogs(s, status, type) ==
  LET logs == LogsOfSubmission(s, status, type)
  IN SortByKey(logs, [l \in logs |->
       (TypeRank(l.type) * (MaxTime + 1) + (MaxTime - l.createdAt)) * IdSpan + TieRank(l.id)])

\* (mutant) the end date is not extended by a day
InDateRange_EndExclusive(s, args) ==
  /\ args.startDate # NoDate => s.createdAt >= args.startDate
  /\ args.endDate # NoDate => s.createdAt < args.endDate

\* the createdAt condition built from startDate and endDate (endDate plus one day)
InDateRange(s, args) ==
  /\ args.startDate # NoDate => s.createdAt >= args.startDate
  /\ args.endDate # NoDate => s.createdAt < args.endDate + DayLen

\* Math.ceil(total / limit)
Pages(total, limit) == (total + limit - 1) \div limit

\* (mutant) the offset is taken from the page number itself
PageOf_SkipsFirstPage(seq, page, limit) ==
  LET skip == page * limit
      last == IF skip + limit < Len(seq) THEN skip + limit ELSE Len(seq)
  IN [i \in 1..(IF last > skip THEN last - skip ELSE 0) |-> seq[skip + i]]

\* a page of a sequence: skip (page - 1) * limit, take limit
PageOf(seq, page, limit) ==
  LET skip == (page - 1) * limit
      last == IF skip + limit < Len(seq) THEN skip + limit ELSE Len(seq)
  IN [i \in 1..(IF last > skip THEN last - skip ELSE 0) |-> seq[skip + i]]

\* a query response replaces the one the caller held; `calls` counts the calls made
\* with the same arguments since the held response was first produced
Held(op, u, args, code, items, total, pages) ==
  LET again == view.held /\ view.op = op /\ view.user = u /\ view.args = args
  IN [held |-> TRUE, op |-> op, user |-> u, args |-> args,
      calls |-> IF again THEN 2 ELSE 1, at |-> IF again THEN view.at ELSE now,
      code |-> code, submissions |-> items, total |-> total, pages |-> pages]

\* `contains` over the strings of the model: equal, or the empty needle
Contains(hay, needle) == needle = "" \/ hay = needle

\* the OR of the where clause when `search` is given: id, email or data.email
MatchesSearch(s, search) ==
  search # "" =>
    \/ Contains(ToString(s.id), search)
    \/ s.email.t = "string" /\ Contains(s.email.v, search)
    \/ /\ "email" \in DOMAIN s.data /\ s.data["email"].t = "string"
       /\ Contains(s.data["email"].v, search)

\* the response of getSubmissionLogs: the plan check, findMany and count, the
\* reconciled logs
LogsResponse(u, args) ==
  IF (args.startDate # NoDate \/ args.endDate # NoDate) /\ plan[u] # "PRO"
  THEN Held("getSubmissionLogs", u, args, 500, << >>, 0, 0)
  ELSE LET where == {s \in SubmissionsWhere(u, args.formId) :
                        MatchesSearch(s, args.search) /\ InDateRange(s, args)}
           rows == PageOf(NewestFirst(where), args.page, args.limit)
       IN Held("getSubmissionLogs", u, args, 200,
               [i \in DOMAIN rows |->
                  [id |-> rows[i].id, createdAt |-> rows[i].createdAt,
                   email |-> rows[i].email,
                   notificationLogs |->
                     FormattedLogs(rows[i], args.status, args.type)]],
               Cardinality(where), Pages(Cardinality(where), args.limit))

\* (mutant) the default developer entry of every selected submission is written
\* to the log table
GetSubmissionLogs_PersistsDefaults(u, args) ==
  /\ view' = LogsResponse(u, args)
  /\ notificationLogs' = notificationLogs \cup
       {[id |-> nextLogId, type |-> "DEVELOPER_NOTIFICATION", status |-> "FAILED",
         error |-> "Developer notifications are disabled",
         submissionId |-> s.id, formId |-> s.formId, createdAt |-> s.createdAt] :
          s \in SubmissionsWhere(u, args.formId)}
  /\ UNCHANGED <<plan, globalSettings, rowOrder, forms, emailSettings, submissions,
                 nextFormId, nextSubId, nextLogId, mail, req, now>>

\* getSubmissionLogs reads the store and writes nothing
GetSubmissionLogs(u, args) ==
  /\ view' = LogsResponse(u, args)
  /\ UNCHANGED <<plan, globalSettings, rowOrder, store, mail, req, now>>

(* --------------------------- searchSubmissions -------------------------- *)
\* the id / email conditions of the where clause
MatchesQuery(s, query) ==
  IF query.isIdSearch
  THEN Contains(ToString(s.id), query.searchValue)
  ELSE \/ s.email.t = "string" /\ Contains(s.email.v, query.searchValue)
       \/ /\ "email" \in DOMAIN s.data /\ s.data["email"].t = "string"
          /\ Contains(s.data["email"].v, query.searchValue)

\* formattedLogs of searchSubmissions: all persisted logs newest first, then the
\* default entries in the order they are pushed
SearchLogs(s) ==
  LET defaults == DefaultLogs(s, PersistedLogs(s, "", ""))
  IN NewestFirst(PersistedLogs(s, "", "")) \o
     SortByKey(defaults, [l \in defaults |-> 2 - TypeRank(l.type)])

\* searchSubmissions: the premium check, findMany, the logs with their defaults
SearchSubmissions(u, args) ==
  /\ view' =
       IF plan[u] \notin {"PRO", "STANDARD"}
       THEN Held("searchSubmissions", u, args, 403, << >>, 0, 0)
       ELSE LET where == {s \in SubmissionsWhere(u, args.formId) :
                            MatchesQuery(s, args.query)}
                rows == NewestFirst(where)
            IN Held("searchSubmissions", u, args, 200,
                    [i \in DOMAIN rows |->
                       [id |-> rows[i].id, createdAt |-> rows[i].createdAt,
                        email |-> rows[i].email,
                        notificationLogs |-> SearchLogs(rows[i])]],
                    Len(rows), 1)
  /\ UNCHANGED <<plan, globalSettings, rowOrder, store, mail, req, now>>

\* the caller lets go of the response it held
DropView ==
  /\ view.held
  /\ view' = NoView
  /\ UNCHANGED <<plan, globalSettings, rowOrder, store, mail, req, now>>

(* ------------------------------- delete -------------------------------- *)
\* outcomes of a statement sent to the store: it is executed, or the store fails
StoreOutcomes == {"ok", "fails"}

\* how many of the four statements of the $transaction of delete are executed
\* before the store fails (4: none fails)
TxProgress == 0..4

\* the number of dependent rows (logs and submissions) of a form
DependentRows(f) ==
  Cardinality({l \in notificationLogs : l.formId = f}) +
  Cardinality({s \in submissions : s.formId = f})

\* the tables after the first `done` statements of the delete transaction ran
AfterStatements(f, done) ==
  [notificationLogs |-> IF done >= 1 THEN {l \in notificationLogs : l.formId # f}
                        ELSE notificationLogs,
   submissions |-> IF done >= 2 THEN {x \in submissions : x.formId # f} ELSE submissions,
   emailSettings |-> IF done >= 3 THEN [emailSettings EXCEPT ![f] = NoRow]
                     ELSE emailSettings,
   forms |-> IF done >= 4 THEN [forms EXCEPT ![f] = NoForm] ELSE forms]

\* (mutant) the statements are sent one by one: what ran before the failure stays
TransactionResult_NoRollback(f, done) == AfterStatements(f, done)

\* db.$transaction([...]): all four statements take effect, or none does
TransactionResult(f, done) ==
  IF done = 4 THEN AfterStatements(f, 4) ELSE AfterStatements(f, 0)

\* db.form.findFirst where {id, userId}; a missing or foreign form ends in the catch
DeleteFind(p, u, f) ==
  /\ req[p].pc = "idle"
  /\ req' = [req EXCEPT ![p] =
       IF forms[f] = u
       THEN [IdleReq EXCEPT !.op = "delete", !.pc = "tx", !.user = u, !.formId = f]
       ELSE Done([IdleReq EXCEPT !.op = "delete", !.user = u, !.formId = f],
                 HttpError(500))]
  /\ UNCHANGED <<plan, globalSettings, view, rowOrder, store, mail, now>>

\* the transaction; `done` statements succeed (4: all), db.form.delete fails when
\* the form row is gone
DeleteTx(p, done) ==
  /\ req[p].op = "delete" /\ req[p].pc = "tx"
  /\ done = 4 => forms[req[p].formId] = req[p].user
  /\ LET r == req[p]
         t == TransactionResult(r.formId, done)
     IN /\ notificationLogs' = t.notificationLogs
        /\ submissions' = t.submissions
        /\ emailSettings' = t.emailSettings
        /\ forms' = t.forms
        /\ req' = [req EXCEPT ![p] =
             IF done = 4 THEN Done([r EXCEPT !.count = DependentRows(r.formId)], Ok(0))
             ELSE Done(r, HttpError(500))]
  /\ UNCHANGED <<plan, globalSettings, view, rowOrder, nextFormId, nextSubId, nextLogId,
                 mail, now>>

(* --------------------------- deleteSubmission --------------------------- *)
SubmissionIds == 1..MaxSubmissions

\* db.submission.findUnique with form.userId, then the two checks
DeleteSubmissionFind(p, u, sid) ==
  /\ req[p].pc = "idle"
  /\ LET r == [IdleReq EXCEPT !.op = "deleteSubmission", !.user = u, !.sid = sid]
         found == {x \in submissions : x.id = sid}
     IN req' = [req EXCEPT ![p] =
          IF found = {} THEN Done(r, HttpError(404))
          ELSE IF \E x \in found : forms[x.formId] # u THEN Done(r, HttpError(403))
          ELSE [r EXCEPT !.pc = "deleteLogs"]]
  /\ UNCHANGED <<plan, globalSettings, view, rowOrder, store, mail, now>>

\* db.notificationLog.deleteMany where submissionId
DeleteSubmissionLogs(p, outcome) ==
  /\ req[p].op = "deleteSubmission" /\ req[p].pc = "deleteLogs"
  /\ LET r == req[p]
         mine == {l \in notificationLogs : l.submissionId = r.sid}
     IN IF outcome = "ok"
        THEN /\ notificationLogs' = notificationLogs \ mine
             /\ req' = [req EXCEPT ![p] =
                  [r EXCEPT !.pc = "deleteRow", !.count = Cardinality(mine)]]
        ELSE /\ req' = [req EXCEPT ![p] = Done(r, HttpError(500))]
             /\ UNCHANGED notificationLogs
  /\ UNCHANGED <<plan, globalSettings, view, rowOrder, forms, emailSettings, submissions,
                 nextFormId, nextSubId, nextLogId, mail, now>>

\* db.submission.delete can be executed: the row exists and no log references it
RowDeletable(sid) ==
  /\ \E x \in submissions : x.id = sid
  /\ \A l \in notificationLogs : l.submissionId # sid

\* db.submission.delete where id
DeleteSubmissionRow(p, outcome) ==
  /\ req[p].op = "deleteSubmission" /\ req[p].pc = "deleteRow"
  /\ LET r == req[p] IN
     IF outcome = "ok" /\ RowDeletable(r.sid)
     THEN /\ submissions' = {x \in submissions : x.id # r.sid}
          /\ req' = [req EXCEPT ![p] = Done(r, Ok(0))]
     ELSE /\ req' = [req EXCEPT ![p] = Done(r, HttpError(500))]
          /\ UNCHANGED submissions
  /\ UNCHANGED <<plan, globalSettings, view, rowOrder, forms, emailSettings,
                 notificationLogs, nextFormId, nextSubId, nextLogId, mail, now>>

(* ------------------ getFormById / getEmailSettings / export ------------- *)
\* the response of each ownership-checked read when its findFirst returns nothing
FormLookupFailure(op) ==
  CASE op = "getFormById" -> HttpError(500)
    [] op = "getEmailSettings" -> HttpError(404)
    [] OTHER -> HttpError(404)

FormReads == {"getFormById", "getEmailSettings", "export"}

\* db.form.findFirst / findUnique where {id, userId}, then the answer
ReadForm(p, op, u, f) ==
  /\ req[p].pc = "idle"
  /\ req' = [req EXCEPT ![p] =
       Done([IdleReq EXCEPT !.op = op, !.user = u, !.formId = f],
            IF forms[f] = u THEN Ok(f) ELSE FormLookupFailure(op))]
  /\ UNCHANGED <<plan, globalSettings, view, rowOrder, store, mail, now>>

(* --------------------------- getFormSubmissions ------------------------- *)
\* db.form.findUnique where {id, userId}, then findMany where formId, newest first
GetFormSubmissions(u, f) ==
  /\ view' =
       IF forms[f] # u
       THEN Held("getFormSubmissions", u, [NoArgs EXCEPT !.formId = f], 500, << >>, 0, 0)
       ELSE LET rows == NewestFirst({s \in submissions : s.formId = f})
            IN Held("getFormSubmissions", u, [NoArgs EXCEPT !.formId = f], 200,
                    [i \in DOMAIN rows |->
                       [id |-> rows[i].id, createdAt |-> rows[i].createdAt,
                        data |-> rows[i].data]],
                    Len(rows), 1)
  /\ UNCHANGED <<plan, globalSettings, rowOrder, store, mail, req, now>>

\* the response has been delivered; the request slot is free again
Finish(p) ==
  /\ req[p].pc = "done"
  /\ req' = [req EXCEPT ![p] = IdleReq]
  /\ UNCHANGED <<plan, globalSettings, view, rowOrder, store, mail, now>>

Tick ==
  /\ now < MaxTime
  /\ now' = now + 1
  /\ UNCHANGED <<plan, globalSettings, view, rowOrder, store, mail, req>>

\* inputs of updateEmailSettings.developerNotificationsEnabled used along with submit
SettingsInputs == {"undefined"}

\* submit, one request at a time, interleaved with settings changes and the clock
Next ==
  \/ Tick
  \/ \E f \in FormIds : \E d \in Payloads : SubmitFindForm("r1", f, d)
  \/ SubmitCount("r1")
  \/ SubmitCreate("r1")
  \/ \E o \in SendOutcomes : SubmitSend("r1", o)
  \/ SubmitLog("r1")
  \/ \E u \in Users : \E f \in FormIds : \E e \in BOOLEAN : ToggleEmailSettings(u, f, e)
  \/ \E u \in Users : \E f \in FormIds : \E d \in SettingsInputs : UpdateEmailSettings(u, f, d)
  \/ Finish("r1")

Spec == Init /\ [][Next]_vars

\* form creation, one request at a time, interleaved with settings changes
NextForms ==
  \/ \E u \in Users : CreateCount("r1", u, "create")
  \/ \E u \in Users : CreateCount("r1", u, "createFromTemplate")
  \/ CreateInsert("r1")
  \/ \E u \in Users : \E f \in FormIds : \E e \in BOOLEAN : ToggleEmailSettings(u, f, e)
  \/ \E u \in Users : \E f \in FormIds : \E d \in OptBool : UpdateEmailSettings(u, f, d)
  \/ Finish("r1")

SpecForms == Init /\ [][NextForms]_vars

\* the payloads posted where only the number of submissions matters
QuotaPayloads ==
  { [k \in {"email", "name"} |-> IF k = "email" THEN Str("a@b.com") ELSE Str("A")],
    [k \in {"name"} |-> Str("A")] }

\* the store after a second form was created and its confirmation enabled: the
\* second form of u1 when u1's plan allows two forms, else the one form of u2
InitQuota ==
  /\ plan \in {f \in [Users -> Plan] : f["u2"] = "FREE"}
  /\ forms = [f \in FormIds |->
                CASE f = 1 -> "u1"
                  [] f = 2 -> IF getQuotaByPlan(plan["u1"]).maxForms >= 2 THEN "u1" ELSE "u2"
                  [] OTHER -> NoForm]
  /\ emailSettings = [f \in FormIds |->
                        IF f = 2 THEN EmailSettingsRow(TRUE, FALSE) ELSE NoRow]
  /\ submissions = {}
  /\ notificationLogs = {}
  /\ nextFormId = 3
  /\ nextSubId = 1
  /\ nextLogId = 1
  /\ mail = {}
  /\ req = [p \in Procs |-> IdleReq]
  /\ now = 0
  /\ globalSettings = [u \in Users |-> NoGlobal]
  /\ view = NoView
  /\ rowOrder = "asc"

\* submit on the forms of two tenants or two forms of one tenant, and the clock
NextQuota ==
  \/ Tick
  \/ \E f \in FormIds : \E d \in QuotaPayloads : SubmitFindForm("r1", f, d)
  \/ SubmitCount("r1")
  \/ SubmitCreate("r1")
  \/ \E o \in SendOutcomes : SubmitSend("r1", o)
  \/ SubmitLog("r1")
  \/ Finish("r1")

SpecQuota == InitQuota /\ [][NextQuota]_vars

\* the store with form 1 in any of the states its settings can be brought to
InitConcurrent ==
  /\ plan \in {f \in [Users -> Plan] : f["u2"] = "FREE"}
  /\ forms = [f \in FormIds |-> IF f = 1 THEN "u1" ELSE NoForm]
  /\ emailSettings \in {[f \in FormIds |-> IF f = 1 THEN row ELSE NoRow] :
                          row \in {NoRow, EmailSettingsRow(FALSE, FALSE),
                                   EmailSettingsRow(TRUE, FALSE)}}
  /\ submissions = {}
  /\ notificationLogs = {}
  /\ nextFormId = 2
  /\ nextSubId = 1
  /\ nextLogId = 1
  /\ mail = {}
  /\ req = [p \in Procs |-> IdleReq]
  /\ now = 0
  /\ globalSettings = [u \in Users |-> NoGlobal]
  /\ view = NoView
  /\ rowOrder = "asc"

\* two submit requests in flight at once
NextConcurrent ==
  \/ Tick
  \/ \E p \in Procs : \E f \in FormIds : \E d \in QuotaPayloads : SubmitFindForm(p, f, d)
  \/ \E p \in Procs : SubmitCount(p)
  \/ \E p \in Procs : SubmitCreate(p)
  \/ \E p \in Procs : \E o \in SendOutcomes : SubmitSend(p, o)
  \/ \E p \in Procs : SubmitLog(p)
  \/ \E p \in Procs : Finish(p)

SpecConcurrent == InitConcurrent /\ [][NextConcurrent]_vars
\* a submit in flight (slot r1) while the owner or another tenant deletes (slot r2)
NextDelete ==
  \/ \E f \in FormIds : \E d \in QuotaPayloads : SubmitFindForm("r1", f, d)
  \/ SubmitCount("r1")
  \/ SubmitCreate("r1")
  \/ \E o \in SendOutcomes : SubmitSend("r1", o)
  \/ SubmitLog("r1")
  \/ \E u \in Users : \E f \in FormIds : DeleteFind("r2", u, f)
  \/ \E done \in TxProgress : DeleteTx("r2", done)
  \/ \E u \in Users : \E sid \in SubmissionIds : DeleteSubmissionFind("r2", u, sid)
  \/ \E o \in StoreOutcomes : DeleteSubmissionLogs("r2", o)
  \/ \E o \in StoreOutcomes : DeleteSubmissionRow("r2", o)
  \/ \E p \in Procs : Finish(p)

SpecDelete == InitConcurrent /\ [][NextDelete]_vars

\* the operations that look a form or a submission up by id and owner, one
\* request at a time, on a store filled by submit
NextOwnership ==
  \/ \E f \in FormIds : \E d \in QuotaPayloads : SubmitFindForm("r1", f, d)
  \/ SubmitCount("r1")
  \/ SubmitCreate("r1")
  \/ \E o \in SendOutcomes : SubmitSend("r1", o)
  \/ SubmitLog("r1")
  \/ \E u \in Users : \E f \in FormIds : DeleteFind("r1", u, f)
  \/ \E done \in TxProgress : DeleteTx("r1", done)
  \/ \E u \in Users : \E sid \in SubmissionIds : DeleteSubmissionFind("r1", u, sid)
  \/ \E o \in StoreOutcomes : DeleteSubmissionLogs("r1", o)
  \/ \E o \in StoreOutcomes : DeleteSubmissionRow("r1", o)
  \/ \E op \in FormReads : \E u \in Users : \E f \in FormIds : ReadForm("r1", op, u, f)
  \/ Finish("r1")

SpecOwnership == InitQuota /\ [][NextOwnership]_vars

\* the settings endpoints of both tenants, with form creation
NextSettings ==
  \/ \E u \in Users : CreateCount("r1", u, "create")
  \/ CreateInsert("r1")
  \/ \E u \in Users : \E f \in FormIds : \E e \in BOOLEAN : ToggleEmailSettings(u, f, e)
  \/ \E u \in Users : \E f \in FormIds : \E d \in OptBool : UpdateEmailSettings(u, f, d)
  \/ \E u \in Users : \E d \in OptBool : UpdateEmailSettingsGlobal(u, d)
  \/ \E u \in Users : \E d \in OptBool : UpdateGlobalSettings(u, d)
  \/ Finish("r1")

SpecSettings == Init /\ [][NextSettings]_vars

\* the store with form 1 in any of the states its settings can be brought to, and
\* either order of rows with equal createdAt
InitLogs ==
  /\ plan \in {f \in [Users -> Plan] : f["u2"] = "FREE"}
  /\ forms = [f \in FormIds |-> IF f = 1 THEN "u1" ELSE NoForm]
  /\ emailSettings \in {[f \in FormIds |-> IF f = 1 THEN row ELSE NoRow] :
                          row \in {NoRow, EmailSettingsRow(TRUE, FALSE),
                                   EmailSettingsRow(TRUE, TRUE)}}
  /\ submissions = {}
  /\ notificationLogs = {}
  /\ nextFormId = 2
  /\ nextSubId = 1
  /\ nextLogId = 1
  /\ mail = {}
  /\ req = [p \in Procs |-> IdleReq]
  /\ now = 0
  /\ globalSettings = [u \in Users |-> NoGlobal]
  /\ view = NoView
  /\ rowOrder \in {"asc", "desc"}

\* the getSubmissionLogs calls made
LogQueries ==
  {[NoArgs EXCEPT !.limit = 2],
   [NoArgs EXCEPT !.page = 2],
   [NoArgs EXCEPT !.limit = 2, !.status = "SENT"],
   [NoArgs EXCEPT !.limit = 2, !.type = "DEVELOPER_NOTIFICATION"],
   [NoArgs EXCEPT !.limit = 2, !.formId = 1, !.startDate = 1],
   [NoArgs EXCEPT !.limit = 2, !.endDate = 0]}

\* the searchSubmissions calls made
SearchQueries ==
  {[NoArgs EXCEPT !.query = [isIdSearch |-> TRUE, searchValue |-> "1"]],
   [NoArgs EXCEPT !.query = [isIdSearch |-> FALSE, searchValue |-> "a@b.com"]]}

\* a caller asks a first time, or repeats the call whose response it holds
Asks(u, a) == view = NoView \/ (view.user = u /\ view.args = a)

\* submit on form 1 and the two queries; a caller holding a response drops it
\* before the next write, so a held response is always of the current store
NextLogs ==
  \/ Tick
  \/ \E d \in QuotaPayloads : view = NoView /\ SubmitFindForm("r1", 1, d)
  \/ view = NoView /\ SubmitCount("r1")
  \/ view = NoView /\ SubmitCreate("r1")
  \/ \E o \in SendOutcomes : view = NoView /\ SubmitSend("r1", o)
  \/ view = NoView /\ SubmitLog("r1")
  \/ view = NoView /\ Finish("r1")
  \/ \E u \in Users : \E a \in LogQueries : Asks(u, a) /\ GetSubmissionLogs(u, a)
  \/ \E u \in Users : \E a \in SearchQueries : Asks(u, a) /\ SearchSubmissions(u, a)
  \/ DropView

SpecLogs == InitLogs /\ [][NextLogs]_vars

\* payloads that carry the reserved key themselves, next to one that does not
MetaPayloads ==
  { [k \in {"name"} |-> Str("A")],
    [k \in {"email", "_meta"} |-> IF k = "email" THEN Str("a@b.com") ELSE Str("mine")],
    [k \in {"name", "_meta"} |-> IF k = "name" THEN Str("A") ELSE Obj("mine")] }

\* submit of payloads with and without a `_meta` key, one request at a time
NextEnrich ==
  \/ \E f \in FormIds : \E d \in MetaPayloads : SubmitFindForm("r1", f, d)
  \/ SubmitCount("r1")
  \/ SubmitCreate("r1")
  \/ \E o \in SendOutcomes : SubmitSend("r1", o)
  \/ SubmitLog("r1")
  \/ Finish("r1")

SpecEnrich == InitConcurrent /\ [][NextEnrich]_vars

\* the calls made where only their effect on the store matters
AuditLogQueries == {[NoArgs EXCEPT !.limit = 2]}
AuditSearchQueries == {[NoArgs EXCEPT !.query = [isIdSearch |-> FALSE, searchValue |-> ""]]}

\* every operation that touches logs or settings, one request at a time; the
\* caller of a query lets go of the response before the next request
NextAudit ==
  \/ \E d \in QuotaPayloads : view = NoView /\ SubmitFindForm("r1", 1, d)
  \/ view = NoView /\ SubmitCount("r1")
  \/ view = NoView /\ SubmitCreate("r1")
  \/ \E o \in SendOutcomes : view = NoView /\ SubmitSend("r1", o)
  \/ view = NoView /\ SubmitLog("r1")
  \/ view = NoView /\ DeleteFind("r1", "u1", 1)
  \/ \E done \in TxProgress : view = NoView /\ DeleteTx("r1", done)
  \/ \E sid \in SubmissionIds : view = NoView /\ DeleteSubmissionFind("r1", "u1", sid)
  \/ \E o \in StoreOutcomes : view = NoView /\ DeleteSubmissionLogs("r1", o)
  \/ \E o \in StoreOutcomes : view = NoView /\ DeleteSubmissionRow("r1", o)
  \/ \E e \in BOOLEAN : view = NoView /\ ToggleEmailSettings("u1", 1, e)
  \/ \E d \in OptBool : view = NoView /\ UpdateEmailSettings("u1", 1, d)
  \/ \E d \in OptBool : view = NoView /\ UpdateGlobalSettings("u1", d)
  \/ \E a \in AuditLogQueries : view = NoView /\ GetSubmissionLogs("u1", a)
  \/ \E a \in AuditSearchQueries : view = NoView /\ SearchSubmissions("u1", a)
  \/ DropView
  \/ view = NoView /\ Finish("r1")

SpecAudit == InitConcurrent /\ [][NextAudit]_vars

\* the type and creation time of a log row
LogKinds == (TypeFilters \ {""}) \X (0..MaxTime)

\* a store with one submission of form 1 and any logs the schema admits for it:
\* several attempts per type, at any times
InitSort ==
  /\ plan \in {f \in [Users -> Plan] : f["u2"] = "FREE"}
  /\ forms = [f \in FormIds |-> IF f = 1 THEN "u1" ELSE NoForm]
  /\ emailSettings = [f \in FormIds |-> NoRow]
  /\ submissions = {[id |-> 1, formId |-> 1, email |-> Str("a@b.com"),
                     data |-> enhanceDataWithAnalytics(
                                [k \in {"email"} |-> Str("a@b.com")]),
                     createdAt |-> 0]}
  /\ \E n \in 0..MaxSubmissions : \E kind \in [1..n -> LogKinds] :
       /\ notificationLogs =
            {[id |-> i, type |-> kind[i][1], status |-> "SENT", error |-> "",
              submissionId |-> 1, formId |-> 1, createdAt |-> kind[i][2]] : i \in 1..n}
       /\ nextLogId = n + 1
  /\ nextFormId = 2
  /\ nextSubId = 2
  /\ mail = {}
  /\ req = [p \in Procs |-> IdleReq]
  /\ now = MaxTime
  /\ globalSettings = [u \in Users |-> NoGlobal]
  /\ view = NoView
  /\ rowOrder \in {"asc", "desc"}

\* the getSubmissionLogs calls made on that store
SortQueries ==
  {[NoArgs EXCEPT !.limit = 2],
   [NoArgs EXCEPT !.limit = 2, !.type = "SUBMISSION_CONFIRMATION"]}

\* getSubmissionLogs applied to each such store
NextSort ==
  \/ \E a \in SortQueries : Asks("u1", a) /\ GetSubmissionLogs("u1", a)
  \/ DropView

SpecSort == InitSort /\ [][NextSort]_vars

\* getSubmissionLogs calls with one or both dates, on one page
DateQueries ==
  {[NoArgs EXCEPT !.limit = MaxSubmissions, !.startDate = 1],
   [NoArgs EXCEPT !.limit = MaxSubmissions, !.endDate = 0],
   [NoArgs EXCEPT !.limit = MaxSubmissions, !.startDate = 0, !.endDate = 0],
   [NoArgs EXCEPT !.limit = MaxSubmissions, !.startDate = 1, !.endDate = MaxTime]}

\* submit on form 1 while the clock advances, and the owner's date-filtered calls
NextDates ==
  \/ Tick
  \/ \E d \in QuotaPayloads : view = NoView /\ SubmitFindForm("r1", 1, d)
  \/ view = NoView /\ SubmitCount("r1")
  \/ view = NoView /\ SubmitCreate("r1")
  \/ \E o \in SendOutcomes : view = NoView /\ SubmitSend("r1", o)
  \/ view = NoView /\ SubmitLog("r1")
  \/ view = NoView /\ Finish("r1")
  \/ \E a \in DateQueries : view = NoView /\ GetSubmissionLogs("u1", a)
  \/ DropView

SpecDates == InitConcurrent /\ [][NextDates]_vars

\* form creation by both tenants, and the settings requests of tenant u2 on every
\* form, its own and those of u1
NextForeign ==
  \/ \E u \in Users : CreateCount("r1", u, "create")
  \/ CreateInsert("r1")
  \/ \E f \in FormIds : \E e \in BOOLEAN : ToggleEmailSettings("u2", f, e)
  \/ \E f \in FormIds : \E d \in OptBool : UpdateEmailSettings("u2", f, d)
  \/ Finish("r1")

SpecForeign == InitConcurrent /\ [][NextForeign]_vars

\* two tenants with one form each
InitTenants ==
  /\ plan \in {f \in [Users -> Plan] : f["u2"] = "FREE"}
  /\ forms = [f \in FormIds |-> CASE f = 1 -> "u1" [] f = 2 -> "u2" [] OTHER -> NoForm]
  /\ emailSettings = [f \in FormIds |-> NoRow]
  /\ submissions = {}
  /\ notificationLogs = {}
  /\ nextFormId = 3
  /\ nextSubId = 1
  /\ nextLogId = 1
  /\ mail = {}
  /\ req = [p \in Procs |-> IdleReq]
  /\ now = 0
  /\ globalSettings = [u \in Users |-> NoGlobal]
  /\ view = NoView
  /\ rowOrder = "asc"

\* the getSubmissionLogs calls of a tenant: all forms, each form, with a search
TenantLogQueries ==
  {[NoArgs EXCEPT !.limit = MaxSubmissions],
   [NoArgs EXCEPT !.limit = MaxSubmissions, !.formId = 1, !.status = "SKIPPED"],
   [NoArgs EXCEPT !.limit = MaxSubmissions, !.formId = 2, !.search = "a@b.com"]}

\* the searchSubmissions calls of a tenant
TenantSearchQueries ==
  {[NoArgs EXCEPT !.query = [isIdSearch |-> FALSE, searchValue |-> "a@b.com"]],
   [NoArgs EXCEPT !.formId = 2, !.query = [isIdSearch |-> TRUE, searchValue |-> ""]]}

\* submissions arrive on the forms of both tenants; each tenant queries with every
\* formId, its own and the other tenant's
NextTenants ==
  \/ \E f \in FormIds : \E d \in QuotaPayloads : view = NoView /\ SubmitFindForm("r1", f, d)
  \/ view = NoView /\ SubmitCount("r1")
  \/ view = NoView /\ SubmitCreate("r1")
  \/ view = NoView /\ SubmitLog("r1")
  \/ view = NoView /\ Finish("r1")
  \/ \E u \in Users : \E a \in TenantLogQueries : view = NoView /\ GetSubmissionLogs(u, a)
  \/ \E u \in Users : \E a \in TenantSearchQueries : view = NoView /\ SearchSubmissions(u, a)
  \/ \E u \in Users : \E f \in FormIds : view = NoView /\ GetFormSubmissions(u, f)
  \/ DropView

SpecTenants == InitTenants /\ [][NextTenants]_vars

\* submit, one request at a time, with a store that may refuse a log write
NextAttempts ==
  \/ \E d \in QuotaPayloads : SubmitFindForm("r1", 1, d)
  \/ SubmitCount("r1")
  \/ SubmitCreate("r1")
  \/ \E o \in SendOutcomes : SubmitSend("r1", o)
  \/ SubmitLog("r1")
  \/ SubmitLogRefused("r1")
  \/ Finish("r1")

SpecAttempts == InitConcurrent /\ [][NextAttempts]_vars

(* ------------------------------ properties ----------------------------- *)
\* the persisted logs of one type of a submission
LogsIn(logs, sid, type) == {l \in logs : l.submissionId = sid /\ l.type = type}
LogsOf(sid, type) == LogsIn(notificationLogs, sid, type)

\* a request that is a submit that returned the success payload
Completed(r) == r.op = "submit" /\ r.pc = "done" /\ r.resp.code = 200

\* the request's owner plan, settings and payload are those of a confirmation
ConfirmationCase(r) ==
  /\ r.plan = "STANDARD" \/ r.plan = "PRO"
  /\ r.es.exists /\ r.es.enabled
  /\ EmailOf(r.data).t = "string" /\ EmailOf(r.data).v # ""

\* C1: when a submit on a STANDARD/PRO owner's form with emailSettings.enabled and a
\* non-empty string data.email completes, exactly one SUBMISSION_CONFIRMATION log is
\* persisted for the new submission and its status is SENT or FAILED.
C1_ExactlyOneConfirmationLog ==
  [][\A p \in Procs :
       (req[p].pc # "done" /\ Completed(req'[p]) /\ ConfirmationCase(req'[p])) =>
         /\ Cardinality(LogsIn(notificationLogs', req'[p].sid, "SUBMISSION_CONFIRMATION")) = 1
         /\ \A l \in LogsIn(notificationLogs', req'[p].sid, "SUBMISSION_CONFIRMATION") :
              l.status \in {"SENT", "FAILED"}]_vars

C1_Witness ==
  \E p \in Procs :
    /\ Completed(req[p]) /\ ConfirmationCase(req[p])
    /\ \E l \in LogsOf(req[p].sid, "SUBMISSION_CONFIRMATION") : l.status = "SENT"

\* C2: when the confirmation send fails (render or transport throws), the Submission
\* row is kept, a FAILED SUBMISSION_CONFIRMATION log carrying the error message is
\* written, and submit returns the success payload with the submission id.
C2_SendFailureAbsorbed ==
  [][\A p \in Procs :
       /\ (req[p].op = "submit" /\ req[p].pc = "send" /\ req'[p].pc # "logSent"
           /\ req'[p] # req[p]) =>
            /\ req'[p].pc = "logFailed" /\ req'[p].err # ""
            /\ submissions' = submissions
       /\ (req[p].op = "submit" /\ req[p].pc = "logFailed" /\ req'[p] # req[p]) =>
            /\ req'[p].pc = "done" /\ req'[p].resp = Ok(req[p].sid)
            /\ submissions' = submissions
            /\ \E s \in submissions' : s.id = req[p].sid
            /\ \E l \in notificationLogs' \ notificationLogs :
                 /\ l.submissionId = req[p].sid /\ l.type = "SUBMISSION_CONFIRMATION"
                 /\ l.status = "FAILED" /\ l.error = req[p].err /\ l.error # ""]_vars

C2_Witness ==
  \E p \in Procs : \E m \in mail : \E l \in notificationLogs :
    /\ Completed(req[p])
    /\ m.submissionId = req[p].sid /\ m.outcome = "sendThrows"
    /\ l.submissionId = req[p].sid /\ l.status = "FAILED" /\ l.error = "sendThrows"
    /\ \E s \in submissions : s.id = req[p].sid

\* C3: when the owner's submissions of the current calendar month, over all the
\* owner's forms, number at least maxSubmissionsPerMonth, submit is rejected with a
\* quota error carrying current and limit, and nothing is written or sent.
C3_QuotaRejection ==
  [][\A p \in Procs :
       (/\ req[p].op = "submit" /\ req[p].pc = "count" /\ req'[p] # req[p]
        /\ Cardinality({s \in submissions :
                          /\ forms[s.formId] = req[p].user
                          /\ s.createdAt >= startOfMonth(now)})
             >= getQuotaByPlan(req[p].plan).maxSubmissionsPerMonth) =>
         /\ req'[p].pc = "done"
         /\ req'[p].resp.code = 403
         /\ req'[p].resp.limit = getQuotaByPlan(req[p].plan).maxSubmissionsPerMonth
         /\ req'[p].resp.current >= req'[p].resp.limit
         /\ store' = store /\ mail' = mail]_vars

C3_Witness ==
  \E p \in Procs : \E s1, s2 \in submissions :
    /\ req[p].op = "submit" /\ req[p].pc = "done" /\ req[p].resp.code = 403
    /\ req[p].resp.current = req[p].resp.limit
    /\ s1.formId # s2.formId
    /\ forms[s1.formId] = req[p].user /\ forms[s2.formId] = req[p].user
    /\ s1.createdAt >= startOfMonth(now) /\ s2.createdAt >= startOfMonth(now)

\* this month's submissions over all forms of a user
MonthTotal(u) ==
  Cardinality({s \in submissions : forms[s.formId] = u /\ s.createdAt >= startOfMonth(now)})

\* C4: the quota check and the insert are not atomic: every insert is made by a
\* request whose own count read was below the limit, and still (C4_Witness) two
\* concurrent requests that read the same count leave the month's total above it.
C4_InsertsPassedTheCheck ==
  [][\A p \in Procs :
       (\E s \in submissions' \ submissions : s.id = req'[p].sid /\ req[p].pc = "create") =>
         req[p].count < getQuotaByPlan(req[p].plan).maxSubmissionsPerMonth]_vars

C4_Witness ==
  /\ MonthTotal("u1") > getQuotaByPlan(plan["u1"]).maxSubmissionsPerMonth
  /\ \A p \in Procs :
       /\ req[p].op = "submit" /\ req[p].user = "u1"
       /\ \E s \in submissions : s.id = req[p].sid
       /\ req[p].count = getQuotaByPlan(plan["u1"]).maxSubmissionsPerMonth - 1
  /\ req["r1"].sid # req["r2"].sid

\* C5: for a FREE tenant whose form count equals maxForms, create and
\* createFromTemplate are rejected with the quota error and no Form or
\* EmailSettings row is created.
C5_FormLimitRejection ==
  [][\A p \in Procs :
       (/\ req[p].pc = "idle" /\ req'[p].op \in {"create", "createFromTemplate"}
        /\ plan[req'[p].user] = "FREE"
        /\ Cardinality({f \in FormIds : forms[f] = req'[p].user})
             = getQuotaByPlan("FREE").maxForms) =>
         /\ req'[p].pc = "done"
         /\ req'[p].resp.code = 403
         /\ req'[p].resp.current = getQuotaByPlan("FREE").maxForms
         /\ req'[p].resp.limit = getQuotaByPlan("FREE").maxForms
         /\ forms' = forms /\ emailSettings' = emailSettings
         /\ nextFormId' = nextFormId]_vars

C5_Witness ==
  \E p \in Procs :
    /\ req[p].op = "createFromTemplate" /\ req[p].pc = "done" /\ req[p].resp.code = 403
    /\ plan[req[p].user] = "FREE"
    /\ Cardinality({f \in FormIds : forms[f] = req[p].user}) = getQuotaByPlan("FREE").maxForms

\* a delivery of the confirmation email of a submission was attempted
Attempted(sid) == \E m \in mail : m.submissionId = sid

\* C6: submit attempts the confirmation email if and only if the owner's plan is
\* STANDARD or PRO, emailSettings exists with enabled = true and data.email is a
\* non-empty string; nothing is ever sent for a FREE owner.
C6_ConfirmationIff ==
  \A p \in Procs :
    (req[p].op = "submit" /\ req[p].sid # 0) =>
      /\ req[p].pc \in {"send", "logSent", "logFailed"} => ConfirmationCase(req[p])
      /\ req[p].pc = "logSkipped" => ~ConfirmationCase(req[p])
      /\ req[p].pc # "send" => (Attempted(req[p].sid) <=> ConfirmationCase(req[p]))
      /\ req[p].plan = "FREE" => ~Attempted(req[p].sid) /\ req[p].pc # "send"

C6_Witness ==
  \E p \in Procs :
    /\ Completed(req[p]) /\ req[p].plan = "FREE" /\ req[p].es.enabled
    /\ EmailOf(req[p].data) = Str("a@b.com")
    /\ ~Attempted(req[p].sid)

\* C7: after a completed submit on a form whose EmailSettings row is absent or has
\* enabled = false, no confirmation email was sent and every SUBMISSION_CONFIRMATION
\* entry getSubmissionLogs returns for the submission is SKIPPED with a reason; the
\* unfiltered call returns exactly one.
C7_DisabledIsSkipped ==
  \A p \in Procs :
    (Completed(req[p]) /\ ~(req[p].es.exists /\ req[p].es.enabled)) =>
      /\ ~Attempted(req[p].sid)
      /\ \A s \in SubmissionsWhere(req[p].user, 0) :
           s.id = req[p].sid =>
             /\ \A st \in StatusFilters : \A ty \in TypeFilters :
                  \A l \in LogsOfSubmission(s, st, ty) :
                    l.type = "SUBMISSION_CONFIRMATION" =>
                      l.status = "SKIPPED" /\ l.error # ""
             /\ Cardinality({l \in LogsOfSubmission(s, "", "") :
                               l.type = "SUBMISSION_CONFIRMATION"}) = 1

C7_Witness ==
  \E p \in Procs : \E s \in SubmissionsWhere(req[p].user, 0) :
    /\ Completed(req[p]) /\ req[p].plan = "PRO"
    /\ req[p].es.exists /\ ~req[p].es.enabled
    /\ s.id = req[p].sid /\ s.email = Str("a@b.com")
    /\ \E l \in LogsOfSubmission(s, "", "") :
         l.type = "SUBMISSION_CONFIRMATION" /\ l.status = "SKIPPED" /\ l.temp = ""

\* C8: within one submit the Submission row is persisted before any send attempt and
\* before any NotificationLog write, and once the response is produced the request
\* writes no further log and makes no further send.
C8_PersistThenNotifyThenRespond ==
  [][/\ \A m \in mail' \ mail : \E s \in submissions : s.id = m.submissionId
     /\ \A l \in notificationLogs' \ notificationLogs :
          \E s \in submissions : s.id = l.submissionId
     /\ \A p \in Procs :
          (req[p].op = "submit" /\ req[p].resp # NoResp) =>
            /\ \A m \in mail' \ mail : m.submissionId # req[p].sid
            /\ \A l \in notificationLogs' \ notificationLogs : l.submissionId # req[p].sid
     /\ \A p \in Procs :
          (req'[p].op = "submit" /\ req'[p].resp.code = 200) =>
            /\ req'[p].pc = "done"
            /\ LogsIn(notificationLogs', req'[p].sid, "SUBMISSION_CONFIRMATION") # {}]_vars

C8_Witness ==
  \E p \in Procs : \E m \in mail :
    /\ Completed(req[p]) /\ m.submissionId = req[p].sid
    /\ LogsOf(req[p].sid, "SUBMISSION_CONFIRMATION") # {}
    /\ \E s \in submissions : s.id = req[p].sid

\* C9: for a PRO tenant and a form with emailSettings.enabled, a submit of
\* {email, name} whose transport succeeds produces exactly one
\* SUBMISSION_CONFIRMATION log with status SENT and exactly one
\* DEVELOPER_NOTIFICATION log for the submission.
C9_ConfirmationAndDeveloperLog ==
  \A p \in Procs :
    (/\ Completed(req[p]) /\ req[p].plan = "PRO" /\ req[p].es.enabled
     /\ DOMAIN req[p].data = {"email", "name"}
     /\ \E m \in mail : m.submissionId = req[p].sid /\ m.outcome = "delivered") =>
      /\ \E s \in submissions : s.id = req[p].sid
      /\ Cardinality(LogsOf(req[p].sid, "SUBMISSION_CONFIRMATION")) = 1
      /\ \A l \in LogsOf(req[p].sid, "SUBMISSION_CONFIRMATION") : l.status = "SENT"
      /\ Cardinality(LogsOf(req[p].sid, "DEVELOPER_NOTIFICATION")) = 1

\* C10: the two channels are failure-isolated: after a failed confirmation send the
\* developer notice is still attempted and its own log written.
C10_ChannelsIsolated ==
  \A p \in Procs :
    (/\ Completed(req[p])
     /\ \E m \in mail : m.submissionId = req[p].sid /\ m.outcome # "delivered") =>
      /\ \E l \in LogsOf(req[p].sid, "SUBMISSION_CONFIRMATION") : l.status = "FAILED"
      /\ LogsOf(req[p].sid, "DEVELOPER_NOTIFICATION") # {}

\* C11: delete is all-or-nothing: when the transaction succeeds every NotificationLog,
\* every Submission, the EmailSettings row and the Form row of the form are gone; when
\* any statement fails no row is deleted and the tables are as before the call.
C11_DeleteAllOrNothing ==
  [][\A p \in Procs :
       (req[p].op = "delete" /\ req[p].pc = "tx" /\ req'[p].pc = "done") =>
         \/ /\ req'[p].resp.code = 200
            /\ forms'[req[p].formId] = NoForm
            /\ ~emailSettings'[req[p].formId].exists
            /\ \A x \in submissions' : x.formId # req[p].formId
            /\ \A l \in notificationLogs' : l.formId # req[p].formId
            /\ \A f \in FormIds \ {req[p].formId} :
                 forms'[f] = forms[f] /\ emailSettings'[f] = emailSettings[f]
            /\ {x \in submissions : x.formId # req[p].formId} = submissions'
            /\ {l \in notificationLogs : l.formId # req[p].formId} = notificationLogs'
         \/ /\ req'[p].resp.code # 200
            /\ forms' = forms /\ emailSettings' = emailSettings
            /\ submissions' = submissions /\ notificationLogs' = notificationLogs]_vars

C11_Witness ==
  \E p \in Procs :
    /\ req[p].op = "delete" /\ req[p].pc = "done" /\ req[p].resp.code = 200
    /\ req[p].count >= 2
    /\ forms[req[p].formId] = NoForm
    /\ \A l \in notificationLogs : l.formId # req[p].formId

\* C12: deleteSubmission is atomic: whenever it has removed logs of the submission,
\* the Submission row is removed as well, whatever the outcome of the call.
C12_DeleteSubmissionAtomic ==
  \A p \in Procs :
    (req[p].op = "deleteSubmission" /\ req[p].pc = "done" /\ req[p].count > 0) =>
      /\ req[p].resp.code = 200
      /\ \A x \in submissions : x.id # req[p].sid

\* the operations that check the ownership of their target
OwnedOps == {"delete", "deleteSubmission"} \cup FormReads

\* the target of an ownership-checked request exists, and its owner
TargetOwners(r) ==
  IF r.op = "deleteSubmission"
  THEN {forms[x.formId] : x \in {y \in submissions : y.id = r.sid}}
  ELSE {forms[r.formId]} \ {NoForm}

\* what each operation answers for an id that does not exist
NotFoundOutcome(op) ==
  CASE op = "delete" -> HttpError(500)
    [] op = "deleteSubmission" -> HttpError(404)
    [] OTHER -> FormLookupFailure(op)

\* C17: an ownership-checked operation on a target that exists but belongs to another
\* tenant answers exactly as it does for an id that does not exist, and writes nothing.
C17_ForeignLooksMissing ==
  [][\A p \in Procs :
       (/\ req[p].pc = "idle" /\ req'[p].pc = "done" /\ req'[p].op \in OwnedOps
        /\ TargetOwners(req'[p]) # {}
        /\ req'[p].user \notin TargetOwners(req'[p])) =>
         /\ req'[p].resp = NotFoundOutcome(req'[p].op)
         /\ store' = store]_vars

\* C13: in every reachable state, concurrent submits included, no two Submission rows
\* share a (formId, email) pair with the email present.
C13_UniqueFormEmail ==
  \A s1, s2 \in submissions :
    (s1.formId = s2.formId /\ s1.email.t = "string" /\ s1.email = s2.email) => s1 = s2

C13_Witness ==
  \E p, q \in Procs :
    /\ p # q
    /\ req[p].op = "submit" /\ req[p].pc = "done" /\ req[p].resp.code = 500
    /\ req[q].op = "submit" /\ req[q].pc \notin {"idle", "done"} /\ req[q].sid # 0
    /\ req[q].formId = req[p].formId /\ req[q].data = req[p].data
    /\ EmailOf(req[p].data).t = "string"
    /\ \E x \in submissions : x.id = req[q].sid /\ x.email = EmailOf(req[p].data)

\* the answer of submit to an error its handler does not catch
GenericFailure == HttpError(500)

\* C14: a submit whose (formId, email) pair is already stored is answered with a
\* conflict error that differs from the answer to a generic failure.
C14_DuplicateIsConflict ==
  \A p \in Procs :
    (/\ req[p].op = "submit" /\ req[p].pc = "done" /\ req[p].sid = 0
     /\ req[p].resp.code \notin {403, 404}
     /\ EmailOf(req[p].data).t = "string"
     /\ \E x \in submissions :
          x.formId = req[p].formId /\ x.email = EmailOf(req[p].data)) =>
      req[p].resp # GenericFailure

\* C16: a tenant's GlobalSettings row is created or modified only while the tenant's
\* plan is PRO; no settings request of a FREE or STANDARD tenant changes it.
C16_GlobalSettingsProOnly ==
  [][\A u \in Users : globalSettings'[u] # globalSettings[u] => plan[u] = "PRO"]_vars

\* the held response is a result set of one of the two queries
Answered(op) == view.held /\ view.op = op /\ view.code = 200

\* no request is between two of its steps
Quiescent == \A p \in Procs : req[p].pc \in {"idle", "done"}

\* the entries of one type among the notificationLogs of a returned submission
EntriesOf(item, type) ==
  {item.notificationLogs[j] : j \in {k \in DOMAIN item.notificationLogs :
                                       item.notificationLogs[k].type = type}}

\* the most recent persisted logs of one type of a submission
MostRecent(sid, type) ==
  {l \in LogsOf(sid, type) : \A m \in LogsOf(sid, type) : m.createdAt <= l.createdAt}

\* C15: getSubmissionLogs with startDate or endDate set, called by a tenant whose plan
\* is not PRO, ends in the forbidden (plan-gated) error and never in a result set.
C15_DateFilterPlanRestricted ==
  (/\ view.held /\ view.op = "getSubmissionLogs"
   /\ view.args.startDate # NoDate \/ view.args.endDate # NoDate
   /\ plan[view.user] # "PRO") =>
    /\ view.code = 403
    /\ view.submissions = << >>

\* C18: for every submission getSubmissionLogs returns, the notificationLogs hold at
\* most one entry per notification type, and where a persisted log of the type exists
\* the entry is the most recent persisted one.
C18_OneEffectiveEntryPerType ==
  (Quiescent /\ Answered("getSubmissionLogs")) =>
    \A i \in DOMAIN view.submissions :
      \A type \in {"SUBMISSION_CONFIRMATION", "DEVELOPER_NOTIFICATION", "DIGEST"} :
        /\ Cardinality(EntriesOf(view.submissions[i], type)) <= 1
        /\ LogsOf(view.submissions[i].id, type) # {} =>
             \A e \in EntriesOf(view.submissions[i], type) :
               /\ e.temp = ""
               /\ \E l \in MostRecent(view.submissions[i].id, type) : l.id = e.id

\* C19: for every submission getSubmissionLogs or searchSubmissions returns, the
\* notificationLogs hold an entry for SUBMISSION_CONFIRMATION and one for
\* DEVELOPER_NOTIFICATION: the persisted log where one exists, a synthesized entry
\* only where none exists.
C19_EntryForEachType ==
  (Quiescent /\ (Answered("getSubmissionLogs") \/ Answered("searchSubmissions"))) =>
    \A i \in DOMAIN view.submissions :
      \A type \in {"SUBMISSION_CONFIRMATION", "DEVELOPER_NOTIFICATION"} :
        /\ EntriesOf(view.submissions[i], type) # {}
        /\ \A e \in EntriesOf(view.submissions[i], type) :
             IF LogsOf(view.submissions[i].id, type) # {}
             THEN e.temp = "" /\ \E l \in LogsOf(view.submissions[i].id, type) : l.id = e.id
             ELSE e.temp # "" /\ e.status \in {"SKIPPED", "FAILED"}

Matching ==
  {s \in submissions :
     /\ forms[s.formId] = view.user
     /\ view.args.formId = 0 \/ s.formId = view.args.formId
     /\ MatchesSearch(s, view.args.search)
     /\ view.args.startDate = NoDate \/ s.createdAt >= view.args.startDate
     /\ view.args.endDate = NoDate \/ s.createdAt < view.args.endDate + DayLen}

\* y comes before x in the newest-first ordering of the store
Newer(y, x) ==
  \/ y.createdAt > x.createdAt
  \/ y.createdAt = x.createdAt /\ TieRank(y.id) < TieRank(x.id)

\* the offset of a matching submission in the newest-first ordering
Offset(x) == Cardinality({y \in Matching : Newer(y, x)})

C22_PayloadKeptPlusMeta ==
  \A p \in Procs : \A x \in submissions :
    (req[p].op = "submit" /\ x.id = req[p].sid) =>
      /\ \A k \in DOMAIN req[p].data :
           k \in DOMAIN x.data /\ x.data[k] = req[p].data[k]
      /\ "_meta" \in DOMAIN x.data
      /\ x.data["_meta"].t = "object"

\* C23: under any interleaving of submit, delete and deleteSubmission, every
\* NotificationLog row references a Submission and a Form that exist, and every
\* Submission references a Form that exists.
C23_NoOrphans ==
  /\ \A l \in notificationLogs :
       /\ forms[l.formId] # NoForm
       /\ \E x \in submissions : x.id = l.submissionId /\ x.formId = l.formId
  /\ \A x \in submissions : forms[x.formId] # NoForm

C23_Witness ==
  /\ req["r1"].op = "submit" /\ req["r1"].pc = "done" /\ req["r1"].sid # 0
  /\ req["r1"].resp.code = 500
  /\ req["r2"].op \in {"delete", "deleteSubmission"} /\ req["r2"].resp.code = 200
  /\ \A x \in submissions : x.id # req["r1"].sid

\* a step of submit that writes its log, and a step of delete or deleteSubmission
\* that removes logs
LogWritingStep ==
  \E p \in Procs : /\ req[p].op = "submit"
                   /\ req[p].pc \in {"logSent", "logFailed", "logSkipped"}
                   /\ req'[p].pc = "done"
LogRemovingStep ==
  \E p \in Procs : /\ \/ req[p].op = "delete" /\ req[p].pc = "tx"
                      \/ req[p].op = "deleteSubmission" /\ req[p].pc = "deleteLogs"
                   /\ req'[p] # req[p]

\* C24: NotificationLog is append-only: a row appears only in a step of submit,
\* disappears only in a step of delete or deleteSubmission and is never modified; the
\* queries and the settings requests leave the log table as it is.
C24_LogsAppendOnly ==
  [][/\ notificationLogs' \ notificationLogs # {} =>
          /\ LogWritingStep
          /\ Cardinality(notificationLogs' \ notificationLogs) = 1
          /\ notificationLogs \subseteq notificationLogs'
     /\ notificationLogs \ notificationLogs' # {} =>
          LogRemovingStep /\ notificationLogs' \subseteq notificationLogs
     /\ \A l \in notificationLogs : \A m \in notificationLogs' : m.id = l.id => m = l
     /\ (\/ view' # view
         \/ globalSettings' # globalSettings
         \/ emailSettings' # emailSettings /\ forms' = forms) =>
          notificationLogs' = notificationLogs]_vars

C24_Witness ==
  /\ Answered("getSubmissionLogs")
  /\ plan["u1"] = "PRO" /\ emailSettings[1].enabled
  /\ \E i \in DOMAIN view.submissions :
       /\ view.submissions[i].email = Str("a@b.com")
       /\ \E e \in EntriesOf(view.submissions[i], "DEVELOPER_NOTIFICATION") : e.temp # ""
       /\ LogsOf(view.submissions[i].id, "DEVELOPER_NOTIFICATION") = {}
       /\ \E l \in LogsOf(view.submissions[i].id, "SUBMISSION_CONFIRMATION") :
            l.status = "SKIPPED"

\* the type name of a comes before that of b
TypeNameBefore(a, b) ==
  <<a, b>> \in {<<"DEVELOPER_NOTIFICATION", "DIGEST">>,
                <<"DEVELOPER_NOTIFICATION", "SUBMISSION_CONFIRMATION">>,
                <<"DIGEST", "SUBMISSION_CONFIRMATION">>}

\* C25: the notificationLogs list getSubmissionLogs returns for a submission is ordered
\* by type name ascending (DEVELOPER_NOTIFICATION before SUBMISSION_CONFIRMATION) and,
\* within one type, by createdAt descending.
C25_LogsByTypeThenNewest ==
  Answered("getSubmissionLogs") =>
    \A i \in DOMAIN view.submissions :
      LET logs == view.submissions[i].notificationLogs
      IN \A j, k \in DOMAIN logs :
           j < k =>
             IF logs[j].type = logs[k].type
             THEN logs[j].createdAt >= logs[k].createdAt
             ELSE TypeNameBefore(logs[j].type, logs[k].type)

C25_Witness ==
  /\ Answered("getSubmissionLogs")
  /\ \E i \in DOMAIN view.submissions :
       LET logs == view.submissions[i].notificationLogs
       IN /\ Len(logs) = 3
          /\ logs[1].type = "DEVELOPER_NOTIFICATION" /\ logs[1].temp # ""
          /\ logs[2].type = "SUBMISSION_CONFIRMATION"
          /\ logs[3].type = "SUBMISSION_CONFIRMATION"
          /\ logs[2].createdAt > logs[3].createdAt
          /\ logs[2].id < logs[3].id

\* the ids of the submissions in the held response
ReturnedIds == {view.submissions[i].id : i \in DOMAIN view.submissions}

C27_EntriesMatchFilter ==
  Answered("getSubmissionLogs") =>
    \A i \in DOMAIN view.submissions :
      LET logs == view.submissions[i].notificationLogs
      IN \A j \in DOMAIN logs :
           /\ view.args.status # "" => logs[j].status = view.args.status
           /\ view.args.type # "" => logs[j].type = view.args.type
           /\ (Quiescent /\ logs[j].temp # "") =>
                LogsOf(view.submissions[i].id, logs[j].type) = {}

\* C28: the EmailSettings row of a form is created or changed only by requests of the
\* form's owner: where every settings request is u2's, only rows of u2's forms change,
\* apart from the row a tenant's own create makes for its new form.
C28_SettingsOwnerOnly ==
  [][\A f \in FormIds :
       emailSettings'[f] # emailSettings[f] =>
         \/ forms'[f] = "u2"
         \/ forms[f] = NoForm /\ forms'[f] # NoForm]_vars

\* the submissions of the forms of a tenant
OwnSubmissions(u) == {x \in submissions : forms[x.formId] = u}

\* C29: getSubmissionLogs, searchSubmissions and getFormSubmissions return only
\* submissions of forms the caller owns, whatever the formId and the filters: the rows
\* and the total are those of the caller's own submissions, and a call naming another
\* tenant's form returns none.
C29_OnlyOwnSubmissions ==
  view.held =>
    /\ ReturnedIds \subseteq {x.id : x \in OwnSubmissions(view.user)}
    /\ view.total <= Cardinality(OwnSubmissions(view.user))
    /\ (view.args.formId # 0 /\ forms[view.args.formId] # view.user) =>
         view.submissions = << >> /\ view.total = 0
    /\ (view.code = 200 /\ view.args.formId = 0 /\ view.args.search = ""
        /\ view.op = "getSubmissionLogs") =>
         view.total = Cardinality(OwnSubmissions(view.user))

C29_Witness ==
  /\ view.held /\ view.code = 200 /\ view.user = "u1"
  /\ view.op = "searchSubmissions"
  /\ view.args.formId = 2 /\ forms[2] = "u2"
  /\ \E x \in submissions : x.formId = 2
  /\ \E x \in submissions : x.formId = 1
  /\ view.submissions = << >>

\* the calls of the mail transport made for a submission (a render that throws
\* makes none)
SendCalls(sid) == {m \in mail : m.submissionId = sid /\ m.outcome # "renderThrows"}

\* C30: the persisted SUBMISSION_CONFIRMATION log of a submission is SENT exactly when
\* the transport's send was called for it and succeeded, FAILED exactly when the send
\* was called and failed, and at most one send is made per submission.
C30_StatusMirrorsSend ==
  /\ \A l \in notificationLogs :
       l.type = "SUBMISSION_CONFIRMATION" =>
         /\ l.status = "SENT" <=>
              \E m \in SendCalls(l.submissionId) : m.outcome = "delivered"
         /\ l.status = "FAILED" <=>
              \E m \in SendCalls(l.submissionId) : m.outcome = "sendThrows"
  /\ \A sid \in SubmissionIds : Cardinality(SendCalls(sid)) <= 1
====
